---------------------------- MODULE Spec2Model ----------------------------
(***************************************************************************)
(* Model of the xenopus MCP server (src/server.py): two tools that build a *)
(* command line for the ScreamingFrog executable, run it as a child        *)
(* process and map the outcome to a status dictionary, and two resources.  *)
(*                                                                         *)
(* Text.  A Python str is a sequence of atoms.  The atom "/" is the path   *)
(* separator; every other atom is a slash-free piece of text.  The path    *)
(* functions of os.path only look at separators, so "/a/b/crawl.seospider" *)
(* is <<"/", "a", "/", "b", "/", "crawl.seospider">>.  A token of a        *)
(* command, a dictionary value and a message are such sequences; a list of *)
(* identifiers is a sequence of tokens.  POSIX path rules are modelled.    *)
(*                                                                         *)
(* Dictionaries are functions from key strings to values.                  *)
(***************************************************************************)
EXTENDS Integers, Sequences, FiniteSets, TLC

(***************************************************************************)
(* Bounds of the model.                                                    *)
(***************************************************************************)
\* Largest number of identifiers a caller supplies in one call, over the
\* three lists together.
MaxIds == 3

(***************************************************************************)
(* Text helpers.                                                           *)
(***************************************************************************)
SEP == "/"

\* A one-atom piece of text.
T(a) == <<a>>

\* str(n) of a Python int, as the f-strings of lines 79 and 148 format it.
DigitChar == <<"0", "1", "2", "3", "4", "5", "6", "7", "8", "9">>

RECURSIVE NatStr(_)
NatStr(n) == IF n < 10 THEN <<DigitChar[n + 1]>>
             ELSE NatStr(n \div 10) \o <<DigitChar[(n % 10) + 1]>>

str(n) == IF n < 0 THEN <<"-">> \o NatStr(0 - n) ELSE NatStr(n)

\* Number of positions of sequence s that hold x.
Occurrences(x, s) == Cardinality({i \in 1..Len(s) : s[i] = x})

(***************************************************************************)
(* os.path.dirname and os.path.join (POSIX rules), used at lines 100, 105. *)
(***************************************************************************)
\* p.rfind('/') + 1
rfind1(p) == IF \E i \in 1..Len(p) : p[i] = SEP
             THEN CHOOSE i \in 1..Len(p) :
                      /\ p[i] = SEP
                      /\ \A j \in (i + 1)..Len(p) : p[j] # SEP
             ELSE 0

RECURSIVE rstrip(_)
rstrip(p) == IF p # <<>> /\ p[Len(p)] = SEP
             THEN rstrip(SubSeq(p, 1, Len(p) - 1))
             ELSE p

dirname(p) ==
    LET head == SubSeq(p, 1, rfind1(p))
    IN  IF head # <<>> /\ (\E i \in 1..Len(head) : head[i] # SEP)
        THEN rstrip(head)
        ELSE head

\* Mutant of join: the base directory is always kept, an absolute operand
\* does not discard it.
join_keeps_base(a, b) ==
    IF a = <<>> \/ a[Len(a)] = SEP THEN a \o b ELSE a \o <<SEP>> \o b

join(a, b) ==
    IF b # <<>> /\ b[1] = SEP THEN b
    ELSE IF a = <<>> \/ a[Len(a)] = SEP THEN a \o b
    ELSE a \o <<SEP>> \o b

(***************************************************************************)
(* Inputs a caller and the environment can supply.                         *)
(***************************************************************************)
\* Identifier tokens: a valid identifier and the flag strings of the
\* executable (identifiers are not validated, so a caller can send them).
Ids == { T("Internal:All"), T("--crawl"), T("--export-tabs"),
         T("--save-report") }

IdSeqs == UNION { [1..n -> Ids] : n \in 0..MaxIds }

\* The triples <<export_tabs, bulk_exports, reports>> of at most MaxIds
\* identifiers in all.
IdTriples ==
    { <<SubSeq(s, 1, i), SubSeq(s, i + 1, j), SubSeq(s, j + 1, Len(s))>> :
        <<s, i, j>> \in { x \in IdSeqs \X (0..MaxIds) \X (0..MaxIds) :
                            x[2] <= x[3] /\ x[3] <= Len(x[1]) } }

Domains == { T("example.com"), T("--crawl") }

DEFAULT_EXPORTS_FOLDER == T("exports")

CrawlOutputFolders == { DEFAULT_EXPORTS_FOLDER, T("--crawl") }

DEFAULT_POSTCRAWL_FOLDER == T("postcrawl-exports")

CrawlFiles == { <<SEP, "a", SEP, "b", SEP, "crawl.seospider">>,
                <<"crawl.seospider">>,
                <<SEP, "crawl.seospider">>,
                <<"a", SEP, SEP, "crawl.seospider">> }

PostOutputFolders == { DEFAULT_POSTCRAWL_FOLDER,
                       T("out"),
                       <<SEP, "abs", SEP, "out">>,
                       T("--crawl"),
                       <<>> }

\* Exit codes of the child as subprocess reports them: 0..255, or -N when
\* the child was killed by signal N.
ExitCodes == { -15, -9, 0, 1, 2, 10, 101, 127, 255 }

\* Captured standard error text.
Stderrs == { <<>>, T("FATAL: licence invalid") }

\* Directory listings os.listdir can return.
Listings == { <<>>, <<T("db1")>>, <<T("db1"), T("db2")>> }

\* Contents of the imported reference tables (export_headers is imported at
\* line 9; the tables are opaque lists of identifiers).
EXPORT_TABS_TABLE == << T("Internal:All"), T("External:All") >>
BULK_EXPORTS_TABLE == << T("All Inlinks") >>
SAVE_REPORTS_TABLE == << T("Crawl Overview") >>

(***************************************************************************)
(* Command Builder.                                                        *)
(***************************************************************************)
EXECUTABLE == T("screamingfrogseospider")

\* Mutant of append_category: the flag is appended without the test for a
\* non-empty list.
append_category_always(command, flag, ids) ==
    (command \o <<T(flag)>>) \o ids

\* Lines 51-63 and 120-132: a category flag and its identifiers, appended
\* if and only if the list is non-empty.
append_category(command, flag, ids) ==
    IF ids # <<>> THEN (command \o <<T(flag)>>) \o ids ELSE command

append_categories(command, p_export_tabs, p_bulk_exports, p_reports) ==
    append_category(
        append_category(
            append_category(command, "--export-tabs", p_export_tabs),
            "--bulk-export", p_bulk_exports),
        "--save-report", p_reports)

\* Mutant of crawl_command: the domain flag of line 42 is left out.
crawl_command_without_domain(domain, p_export_tabs, p_bulk_exports, p_reports, output_folder) ==
    append_categories(
        << EXECUTABLE,
           T("--headless"),
           T("--output-folder"), output_folder,
           T("--export-format"), T("csv"),
           T("--timestamped-output"),
           T("--save-crawl") >>,
        p_export_tabs, p_bulk_exports, p_reports)

\* Lines 40-63.
crawl_command(domain, p_export_tabs, p_bulk_exports, p_reports, output_folder) ==
    append_categories(
        << EXECUTABLE,
           T("--crawl"), domain,
           T("--headless"),
           T("--output-folder"), output_folder,
           T("--export-format"), T("csv"),
           T("--timestamped-output"),
           T("--save-crawl") >>,
        p_export_tabs, p_bulk_exports, p_reports)

\* Mutant of export_command: the command of domain_crawl copied, with the
\* crawl file after the start-new-crawl flag.
export_command_starts_crawl(crawl_file, p_export_tabs, p_bulk_exports, p_reports, folder) ==
    append_categories(
        << EXECUTABLE,
           T("--headless"),
           T("--output-folder"), folder,
           T("--export-format"), T("csv"),
           T("--timestamped-output"),
           T("--crawl"), crawl_file >>,
        p_export_tabs, p_bulk_exports, p_reports)

\* Lines 110-132.
export_command(crawl_file, p_export_tabs, p_bulk_exports, p_reports, folder) ==
    append_categories(
        << EXECUTABLE,
           T("--headless"),
           T("--output-folder"), folder,
           T("--export-format"), T("csv"),
           T("--timestamped-output"),
           T("--load-crawl"), crawl_file >>,
        p_export_tabs, p_bulk_exports, p_reports)

(***************************************************************************)
(* Result Mapper.                                                          *)
(***************************************************************************)
NOT_FOUND_MESSAGE ==
    << "Error: 'screamingfrogseospider' command ", "not found",
       ". Ensure it is installed and in the system's PATH." >>

\* The identifying key of a tool's response.
key_of(t) == IF t = "domain_crawl" THEN "domain" ELSE "crawl_file"

\* Lines 71 and 140.
success_response(t, value) ==
    ("status" :> "success") @@ (key_of(t) :> value)
    @@ ("message" :> IF t = "domain_crawl" THEN T("Crawl completed.")
                     ELSE T("Data export completed."))

\* Mutant of not_found_response: the not-found path also carries a details
\* key, like the failed path.
not_found_response_with_details(t, value) ==
    ("status" :> "error") @@ (key_of(t) :> value)
    @@ ("message" :> NOT_FOUND_MESSAGE) @@ ("details" :> <<>>)

\* Lines 74-76 and 143-145.
not_found_response(t, value) ==
    ("status" :> "error") @@ (key_of(t) :> value)
    @@ ("message" :> NOT_FOUND_MESSAGE)

\* Mutant of failed_message: the message names the input but not the exit
\* code.
failed_message_without_code(t, value, returncode) ==
    (IF t = "domain_crawl"
     THEN T("Error running Screaming Frog for domain ")
     ELSE T("Error exporting data from "))
    \o value \o T(". Return code: ")

\* Lines 79 and 148.
failed_message(t, value, returncode) ==
    (IF t = "domain_crawl"
     THEN T("Error running Screaming Frog for domain ")
     ELSE T("Error exporting data from "))
    \o value \o T(". Return code: ") \o str(returncode)

\* Lines 78-85 and 147-154.
failed_response(t, value, returncode, stderr) ==
    ("status" :> "error") @@ (key_of(t) :> value)
    @@ ("message" :> failed_message(t, value, returncode))
    @@ ("details" :> stderr)

(***************************************************************************)
(* State.                                                                  *)
(***************************************************************************)
VARIABLES
    export_tabs,            \* module-level reference list (line 9)
    bulk_exports,           \* module-level reference list (line 9)
    save_reports,           \* module-level reference list (line 9)
    pc,                     \* position of the handler being served
    call,                   \* the request being served: tool and primary input
    args,                   \* the handler's parameters (locals)
    export_output_folder,   \* local of post_crawl_export (line 105)
    command,                \* local: the argument list being built
    argv,                   \* argument vector handed to subprocess.run
    proc,                   \* what became of the subprocess.run call
    response,               \* the dictionary returned by the handler
    fault,                  \* the operation whose exception left the handler
    trace,                  \* steps the current call has taken, in order
    ref_result,             \* last result of export_header_reference
    first_ref,              \* first result of export_header_reference
    tool_after_ref          \* a tool was called after that first result

vars == << export_tabs, bulk_exports, save_reports, pc, call, args,
           export_output_folder, command, argv, proc, response, fault,
           trace, ref_result, first_ref, tool_after_ref >>

globals == << export_tabs, bulk_exports, save_reports >>
refs == << ref_result, first_ref, tool_after_ref >>

NoCall == [tool |-> "none", key |-> <<>>]
NoProc == [state |-> "none", returncode |-> 0, stderr |-> <<>>]
NoDict == <<>>

Init ==
    /\ export_tabs = EXPORT_TABS_TABLE
    /\ bulk_exports = BULK_EXPORTS_TABLE
    /\ save_reports = SAVE_REPORTS_TABLE
    /\ pc = "idle"
    /\ call = NoCall
    /\ args = <<>>
    /\ export_output_folder = <<>>
    /\ command = <<>>
    /\ argv = <<>>
    /\ proc = NoProc
    /\ response = NoDict
    /\ fault = "none"
    /\ trace = <<>>
    /\ ref_result = NoDict
    /\ first_ref = NoDict
    /\ tool_after_ref = FALSE

(***************************************************************************)
(* Tools.                                                                  *)
(***************************************************************************)
\* Mutant of domain_crawl: the parameters export_tabs and bulk_exports are
\* not locals but rebind the module-level lists of the same names.
domain_crawl_rebinds(domain, p_export_tabs, p_bulk_exports, p_reports, output_folder) ==
    /\ pc = "idle"
    /\ call' = [tool |-> "domain_crawl", key |-> domain]
    /\ args' = [domain |-> domain, export_tabs |-> p_export_tabs,
                bulk_exports |-> p_bulk_exports, reports |-> p_reports,
                output_folder |-> output_folder]
    /\ command' = crawl_command(domain, p_export_tabs, p_bulk_exports,
                                p_reports, output_folder)
    /\ trace' = <<"build">>
    /\ pc' = "built"
    /\ export_tabs' = p_export_tabs
    /\ bulk_exports' = p_bulk_exports
    /\ tool_after_ref' = (DOMAIN first_ref # {})
    /\ UNCHANGED << save_reports, export_output_folder, argv, proc, response,
                    fault, ref_result, first_ref >>

\* domain_crawl, lines 29-65: the command is built from the parameters.
\* business_name and config are accepted and never read.
domain_crawl(domain, p_export_tabs, p_bulk_exports, p_reports, output_folder) ==
    /\ pc = "idle"
    /\ call' = [tool |-> "domain_crawl", key |-> domain]
    /\ args' = [domain |-> domain, export_tabs |-> p_export_tabs,
                bulk_exports |-> p_bulk_exports, reports |-> p_reports,
                output_folder |-> output_folder]
    /\ command' = crawl_command(domain, p_export_tabs, p_bulk_exports,
                                p_reports, output_folder)
    /\ trace' = <<"build">>
    /\ pc' = "built"
    /\ tool_after_ref' = (DOMAIN first_ref # {})
    /\ UNCHANGED << globals, export_output_folder, argv, proc, response,
                    fault, ref_result, first_ref >>

\* post_crawl_export, lines 90-108: up to the call of os.makedirs.
post_crawl_export(crawl_file, p_export_tabs, p_bulk_exports, p_reports, output_folder) ==
    /\ pc = "idle"
    /\ call' = [tool |-> "post_crawl_export", key |-> crawl_file]
    /\ args' = [crawl_file |-> crawl_file, export_tabs |-> p_export_tabs,
                bulk_exports |-> p_bulk_exports, reports |-> p_reports,
                output_folder |-> output_folder]
    /\ export_output_folder' = join(dirname(crawl_file), output_folder)
    /\ trace' = <<>>
    /\ pc' = "makedirs"
    /\ tool_after_ref' = (DOMAIN first_ref # {})
    /\ UNCHANGED << globals, command, argv, proc, response, fault,
                    ref_result, first_ref >>

\* os.makedirs(..., exist_ok=True) returns; lines 110-134 build the command.
makedirs_ok ==
    /\ pc = "makedirs"
    /\ export_output_folder # <<>>
    /\ command' = export_command(args.crawl_file, args.export_tabs,
                                 args.bulk_exports, args.reports,
                                 export_output_folder)
    /\ trace' = trace \o <<"makedirs", "build">>
    /\ pc' = "built"
    /\ UNCHANGED << globals, call, args, export_output_folder, argv, proc,
                    response, fault, refs >>

\* os.makedirs raises (always for the empty path; otherwise when the
\* filesystem refuses).  Line 108 is outside the try block: the exception
\* leaves the handler.
makedirs_fault ==
    /\ pc = "makedirs"
    /\ fault' = "makedirs"
    /\ pc' = "raised"
    /\ args' = <<>>
    /\ export_output_folder' = <<>>
    /\ UNCHANGED << globals, call, command, argv, proc, response, trace, refs >>

\* Lines 68 and 137: the built command is handed to subprocess.run.
subprocess_run ==
    /\ pc = "built"
    /\ argv' = command
    /\ proc' = [NoProc EXCEPT !.state = "running"]
    /\ trace' = Append(trace, "run")
    /\ pc' = "running"
    /\ UNCHANGED << globals, call, args, export_output_folder, command,
                    response, fault, refs >>

\* The locals of the handler are gone once it has returned or raised.
Leave ==
    /\ args' = <<>>
    /\ export_output_folder' = <<>>
    /\ command' = <<>>
    /\ argv' = <<>>

\* The local the handler echoes back: domain (lines 71, 76, 85) or
\* crawl_file (lines 140, 145, 154).
primary == IF call.tool = "domain_crawl" THEN args.domain ELSE args.crawl_file

\* Mutant of run_not_found: no except clause for FileNotFoundError, the
\* exception leaves the handler.
run_not_found_uncaught ==
    /\ pc = "running"
    /\ proc' = [proc EXCEPT !.state = "not_found"]
    /\ fault' = "subprocess.run"
    /\ pc' = "raised"
    /\ Leave
    /\ UNCHANGED << globals, call, response, trace, refs >>

\* subprocess.run raises FileNotFoundError; lines 73-76 and 142-145.
run_not_found ==
    /\ pc = "running"
    /\ proc' = [proc EXCEPT !.state = "not_found"]
    /\ response' = not_found_response(call.tool, primary)
    /\ trace' = Append(trace, "respond")
    /\ pc' = "returned"
    /\ Leave
    /\ UNCHANGED << globals, call, fault, refs >>

\* Mutant of run_fault: the handler tries the command again after a failed
\* start.
run_fault_retries ==
    /\ pc = "running"
    /\ pc' = "built"
    /\ UNCHANGED << globals, call, args, export_output_folder, command,
                    argv, proc, response, fault, trace, refs >>

\* subprocess.run raises an exception that is neither FileNotFoundError nor
\* CalledProcessError (PermissionError, ValueError for an embedded NUL):
\* no except clause matches and it leaves the handler.
run_fault ==
    /\ pc = "running"
    /\ proc' = [proc EXCEPT !.state = "fault"]
    /\ fault' = "subprocess.run"
    /\ pc' = "raised"
    /\ Leave
    /\ UNCHANGED << globals, call, response, trace, refs >>

\* Mutant of child_exit: subprocess.run is called without check=True, so
\* a non-zero exit code raises nothing and the success path is taken.
child_exit_unchecked(returncode, stderr) ==
    /\ pc = "running"
    /\ proc' = [state |-> "exited", returncode |-> returncode, stderr |-> stderr]
    /\ response' = success_response(call.tool, primary)
    /\ trace' = trace \o <<"exit", "respond">>
    /\ pc' = "returned"
    /\ Leave
    /\ UNCHANGED << globals, call, fault, refs >>

\* The child exits with returncode and stderr.  check=True raises
\* CalledProcessError for a non-zero code (lines 78-85, 147-154); code zero
\* returns the success dictionary (lines 69-71, 138-140).
child_exit(returncode, stderr) ==
    /\ pc = "running"
    /\ proc' = [state |-> "exited", returncode |-> returncode, stderr |-> stderr]
    /\ response' = IF returncode = 0
                   THEN success_response(call.tool, primary)
                   ELSE failed_response(call.tool, primary, returncode, stderr)
    /\ trace' = trace \o <<"exit", "respond">>
    /\ pc' = "returned"
    /\ Leave
    /\ UNCHANGED << globals, call, fault, refs >>

(***************************************************************************)
(* Resources.                                                              *)
(***************************************************************************)
\* Lines 156-163.
header_reference ==
    ("export-tabs" :> export_tabs) @@ ("bulk-exports" :> bulk_exports)
    @@ ("save-reports" :> save_reports)

export_header_reference ==
    /\ pc = "idle"
    /\ call' = [tool |-> "export_header_reference", key |-> <<>>]
    /\ response' = header_reference
    /\ ref_result' = header_reference
    /\ first_ref' = IF DOMAIN first_ref = {} THEN header_reference
                     ELSE first_ref
    /\ pc' = "returned"
    /\ UNCHANGED << globals, args, export_output_folder, command, argv, proc,
                    fault, trace, tool_after_ref >>

\* Lines 164-167: os.listdir returns the names in the data directory.
database_id_list_ok(listing) ==
    /\ pc = "idle"
    /\ call' = [tool |-> "database_id_list", key |-> <<>>]
    /\ response' = ("database-ids" :> listing)
    /\ pc' = "returned"
    /\ UNCHANGED << globals, args, export_output_folder, command, argv, proc,
                    fault, trace, refs >>

\* Lines 164-167: os.listdir raises (the directory does not exist).
database_id_list_fault ==
    /\ pc = "idle"
    /\ call' = [tool |-> "database_id_list", key |-> <<>>]
    /\ fault' = "listdir"
    /\ pc' = "raised"
    /\ UNCHANGED << globals, args, export_output_folder, command, argv, proc,
                    response, trace, refs >>

(***************************************************************************)
(* The protocol server (line 174) sends the result or the error of the     *)
(* finished call and waits for the next request.                           *)
(***************************************************************************)
mcp_reply ==
    /\ pc \in {"returned", "raised"}
    /\ pc' = "idle"
    /\ call' = NoCall
    /\ proc' = NoProc
    /\ response' = NoDict
    /\ fault' = "none"
    /\ trace' = <<>>
    /\ UNCHANGED << globals, args, export_output_folder, command, argv, refs >>

call_domain_crawl ==
    /\ pc = "idle"
    /\ \E d \in Domains, l \in IdTriples, o \in CrawlOutputFolders :
            domain_crawl(d, l[1], l[2], l[3], o)

call_post_crawl_export ==
    /\ pc = "idle"
    /\ \E f \in CrawlFiles, l \in IdTriples, o \in PostOutputFolders :
            post_crawl_export(f, l[1], l[2], l[3], o)

exit_child ==
    /\ pc = "running"
    /\ \E c \in ExitCodes, e \in Stderrs : child_exit(c, e)

list_database_ids == \E l \in Listings : database_id_list_ok(l)

Next ==
    \/ call_domain_crawl
    \/ call_post_crawl_export
    \/ makedirs_ok
    \/ makedirs_fault
    \/ subprocess_run
    \/ run_not_found
    \/ run_fault
    \/ exit_child
    \/ export_header_reference
    \/ list_database_ids
    \/ database_id_list_fault
    \/ mcp_reply

Spec == Init /\ [][Next]_vars

(***************************************************************************)
(* Vocabulary of the properties.                                           *)
(***************************************************************************)
Tools == {"domain_crawl", "post_crawl_export"}

\* The handler is between building its command and leaving.
HasCommand == pc \in {"built", "running"}

Ended == pc \in {"returned", "raised"}

\* A tool call has returned its dictionary.
ToolReturned == pc = "returned" /\ call.tool \in Tools

\* The identifying key of the response carries the caller's input.
EchoesInput ==
    /\ call.tool = "domain_crawl" =>
          "domain" \in DOMAIN response /\ response["domain"] = call.key
    /\ call.tool = "post_crawl_export" =>
          "crawl_file" \in DOMAIN response /\ response["crawl_file"] = call.key

\* Text m contains the atom a.
ContainsAtom(m, a) == \E i \in 1..Len(m) : m[i] = a

Digits == {"0", "1", "2", "3", "4", "5", "6", "7", "8", "9"}

DigitValue(a) == CHOOSE v \in 0..9 : DigitChar[v + 1] = a

RECURSIVE NatValue(_)
NatValue(ds) == IF ds = <<>> THEN 0
                ELSE 10 * NatValue(SubSeq(ds, 1, Len(ds) - 1))
                     + DigitValue(ds[Len(ds)])

IsNat(ds) == ds # <<>> /\ \A i \in 1..Len(ds) : ds[i] \in Digits

\* A decimal numeral, with an optional minus sign.
IsNumeral(t) == IsNat(t) \/ (Len(t) > 1 /\ t[1] = "-" /\ IsNat(Tail(t)))

NumeralValue(t) == IF t[1] = "-" THEN 0 - NatValue(Tail(t)) ELSE NatValue(t)

\* Text m contains the number c: a numeral of value c that is not part of
\* a longer numeral.
ContainsNumber(m, c) ==
    \E i \in 1..Len(m), j \in 1..Len(m) :
        /\ i <= j
        /\ IsNumeral(SubSeq(m, i, j))
        /\ NumeralValue(SubSeq(m, i, j)) = c
        /\ (i = 1 \/ m[i - 1] \notin Digits \cup {"-"})
        /\ (j = Len(m) \/ m[j + 1] \notin Digits)

\* Some occurrence of flag in cmd is immediately followed by value.
FlagThenValue(cmd, flag, value) ==
    \E i \in 1..(Len(cmd) - 1) : cmd[i] = T(flag) /\ cmd[i + 1] = value

CategoryFlags == {"--export-tabs", "--bulk-export", "--save-report"}

\* Some occurrence of flag in cmd is immediately followed by exactly the
\* elements of ids, in order: after them the command ends or the next
\* category flag begins.
FlagThenList(cmd, flag, ids) ==
    \E i \in 1..Len(cmd) :
        /\ cmd[i] = T(flag)
        /\ i + Len(ids) <= Len(cmd)
        /\ SubSeq(cmd, i + 1, i + Len(ids)) = ids
        /\ \/ i + Len(ids) = Len(cmd)
           \/ \E f \in CategoryFlags : cmd[i + Len(ids) + 1] = T(f)

\* The list of the call's arguments that goes with a category flag.
CategoryList(flag) ==
    IF flag = "--export-tabs" THEN args.export_tabs
    ELSE IF flag = "--bulk-export" THEN args.bulk_exports
    ELSE args.reports

\* The tokens of the command that are values the caller supplied.
CallerTokens ==
    (IF call.tool = "domain_crawl"
     THEN <<args.domain, args.output_folder>>
     ELSE <<export_output_folder, args.crawl_file>>)
    \o args.export_tabs \o args.bulk_exports \o args.reports

ExpectedReference ==
    ("export-tabs" :> EXPORT_TABS_TABLE) @@ ("bulk-exports" :> BULK_EXPORTS_TABLE)
    @@ ("save-reports" :> SAVE_REPORTS_TABLE)

RunCount == Occurrences("run", trace)

C3_FailedResponse ==
    (Ended /\ call.tool \in Tools /\ proc.state = "exited"
        /\ proc.returncode # 0) =>
        /\ pc = "returned"
        /\ response["status"] = "error"
        /\ "details" \in DOMAIN response
        /\ response["details"] = proc.stderr
        /\ ContainsNumber(response["message"], proc.returncode)
        /\ EchoesInput

C3_Witness ==
    /\ ToolReturned
    /\ call.tool = "post_crawl_export"
    /\ proc.state = "exited"
    /\ proc.returncode = -15
    /\ proc.stderr # <<>>
    /\ response["details"] = proc.stderr

(***************************************************************************)
(* C4.  Zero exit.                                                         *)
(***************************************************************************)
\* C4: when the child exits with code zero, the call returns a dictionary
\* with status "success" whose identifying key equals the caller's input;
\* status "success" is returned in no other outcome.
C4_SuccessOnlyOnZeroExit ==
    /\ (Ended /\ call.tool \in Tools /\ proc.state = "exited"
           /\ proc.returncode = 0) =>
          /\ pc = "returned"
          /\ response["status"] = "success"
          /\ EchoesInput
    /\ (ToolReturned /\ response["status"] = "success") =>
          proc.state = "exited" /\ proc.returncode = 0

C4_Witness ==
    /\ ToolReturned
    /\ call.tool = "domain_crawl"
    /\ proc.state = "exited"
    /\ proc.returncode = 0
    /\ response["status"] = "success"
    /\ response["domain"] = T("--crawl")

(***************************************************************************)
(* C5.  Category flags.                                                    *)
(***************************************************************************)
\* C5 as stated: for each of the three identifier lists L, when L is
\* non-empty the built command contains its category flag immediately
\* followed by exactly the elements of L in the caller's order, and when L
\* is empty the flag occurs nowhere in the built command.
C5_FlagAbsentWhenListEmpty ==
    HasCommand =>
        \A f \in CategoryFlags :
            /\ CategoryList(f) # <<>> => FlagThenList(command, f, CategoryList(f))
            /\ CategoryList(f) = <<>> => Occurrences(T(f), command) = 0

\* C5 amended: when L is non-empty the built command contains its
\* category flag immediately followed by exactly the elements of L in the
\* caller's order, and the builder adds that flag once; when L is empty the
\* builder adds no such flag.  The flag occurs elsewhere in the command
\* only where a value the caller supplied (the domain, the crawl file, the
\* output folder, an identifier of any list) is itself that string.
C5_BuilderAddsFlagIffListNonEmpty ==
    HasCommand =>
        \A f \in CategoryFlags :
            /\ CategoryList(f) # <<>> => FlagThenList(command, f, CategoryList(f))
            /\ Occurrences(T(f), command) =
                   (IF CategoryList(f) # <<>> THEN 1 ELSE 0)
                   + Occurrences(T(f), CallerTokens)

C5_Witness ==
    /\ HasCommand
    /\ call.tool = "post_crawl_export"
    /\ args.export_tabs = <<>>
    /\ args.bulk_exports = <<T("--export-tabs")>>
    /\ args.reports = <<T("--save-report"), T("Internal:All")>>
    /\ Occurrences(T("--export-tabs"), command) = 1
    /\ Occurrences(T("--save-report"), command) = 2

(***************************************************************************)
(* C6.  The domain flag of domain_crawl.                                   *)
(***************************************************************************)
\* C6 as stated: the command built by domain_crawl contains --crawl
\* followed by exactly the domain, and --crawl occurs exactly once in it.
C6_DomainFlagExactlyOnce ==
    (HasCommand /\ call.tool = "domain_crawl") =>
        /\ FlagThenValue(command, "--crawl", args.domain)
        /\ Occurrences(T("--crawl"), command) = 1

\* C6 amended: the command built by domain_crawl contains --crawl followed
\* by exactly the domain, and the builder adds the flag exactly once; it
\* occurs exactly once in the command unless a value the caller supplied
\* (the domain, the output folder, an identifier) is itself the string
\* --crawl, which adds one occurrence each.
C6_BuilderAddsDomainFlagOnce ==
    (HasCommand /\ call.tool = "domain_crawl") =>
        /\ command[2] = T("--crawl")
        /\ command[3] = args.domain
        /\ args.domain = call.key
        /\ Occurrences(T("--crawl"), command) =
               1 + Occurrences(T("--crawl"), CallerTokens)

C6_Witness ==
    /\ pc = "running"
    /\ call.tool = "domain_crawl"
    /\ args.domain = T("example.com")
    /\ args.reports # <<>>
    /\ Occurrences(T("--crawl"), argv) = 1

(***************************************************************************)
(* C7.  post_crawl_export loads, never crawls.                             *)
(***************************************************************************)
\* C7 as stated: the command post_crawl_export hands to the executable
\* contains --load-crawl followed by crawl_file and contains no --crawl.
C7_NeverStartsCrawl ==
    (pc = "running" /\ call.tool = "post_crawl_export") =>
        /\ FlagThenValue(argv, "--load-crawl", args.crawl_file)
        /\ Occurrences(T("--crawl"), argv) = 0

\* C7 amended: the command post_crawl_export hands to the executable
\* contains --load-crawl followed by crawl_file, and the builder adds no
\* --crawl; --crawl occurs in it only where a value the caller supplied
\* (the crawl file, the resolved output folder, an identifier) is itself
\* the string --crawl.
C7_BuilderAddsNoCrawlFlag ==
    (pc = "running" /\ call.tool = "post_crawl_export") =>
        /\ argv = command
        /\ FlagThenValue(argv, "--load-crawl", args.crawl_file)
        /\ args.crawl_file = call.key
        /\ Occurrences(T("--crawl"), argv) =
               Occurrences(T("--crawl"), CallerTokens)

C7_Witness ==
    /\ pc = "running"
    /\ call.tool = "post_crawl_export"
    /\ args.export_tabs # <<>>
    /\ Occurrences(T("--crawl"), argv) = 0
    /\ argv[8] = T("--load-crawl")

(***************************************************************************)
(* C8.  Output folder of post_crawl_export.                                *)
(***************************************************************************)
IsAbsolute(p) == p # <<>> /\ p[1] = SEP

\* The directory of crawl_file with output_folder below it.
UnderCrawlFileDirectory(crawl_file, output_folder) ==
    LET d == dirname(crawl_file)
    IN  IF d = <<>> THEN output_folder
        ELSE IF d[Len(d)] = SEP THEN d \o output_folder
        ELSE (d \o <<SEP>>) \o output_folder

\* C8: the resolved output directory of post_crawl_export (the one created
\* and passed after --output-folder) is the directory of crawl_file joined
\* with output_folder when output_folder is relative, and output_folder
\* itself when it is absolute; "/a/b/crawl.seospider" with "out" resolves
\* to "/a/b/out" and with "/abs/out" to "/abs/out".
C8_OutputFolderResolution ==
    (call.tool = "post_crawl_export" /\ pc \in {"makedirs", "built", "running"}) =>
        /\ IsAbsolute(args.output_folder) =>
              export_output_folder = args.output_folder
        /\ ~IsAbsolute(args.output_folder) =>
              export_output_folder =
                  UnderCrawlFileDirectory(args.crawl_file, args.output_folder)
        /\ (args.crawl_file = <<SEP, "a", SEP, "b", SEP, "crawl.seospider">>
               /\ args.output_folder = T("out")) =>
              export_output_folder = <<SEP, "a", SEP, "b", SEP, "out">>
        /\ (args.crawl_file = <<SEP, "a", SEP, "b", SEP, "crawl.seospider">>
               /\ args.output_folder = <<SEP, "abs", SEP, "out">>) =>
              export_output_folder = <<SEP, "abs", SEP, "out">>
        /\ HasCommand =>
              FlagThenValue(command, "--output-folder", export_output_folder)

C8_Witness ==
    /\ pc = "built"
    /\ call.tool = "post_crawl_export"
    /\ args.crawl_file = <<SEP, "a", SEP, "b", SEP, "crawl.seospider">>
    /\ args.output_folder = T("out")
    /\ command[4] = <<SEP, "a", SEP, "b", SEP, "out">>

(***************************************************************************)
(* C9.  Reference lists.                                                   *)
(***************************************************************************)
\* C9: after any sequence of tool and resource calls,
\* export_header_reference returns the same three lists as on its first
\* call, unmodified; no call changes the module-level reference lists.
C9_ReferenceListsUnchanged ==
    /\ DOMAIN ref_result # {} =>
          ref_result = first_ref /\ ref_result = ExpectedReference
    /\ export_tabs = EXPORT_TABS_TABLE
    /\ bulk_exports = BULK_EXPORTS_TABLE
    /\ save_reports = SAVE_REPORTS_TABLE

C9_Witness ==
    /\ pc = "returned"
    /\ call.tool = "export_header_reference"
    /\ tool_after_ref
    /\ response = first_ref

(***************************************************************************)
(* C10.  One invocation per call.                                          *)
(***************************************************************************)
\* C10 as stated: in every execution of a call of domain_crawl or
\* post_crawl_export the executable is invoked exactly once, after the
\* command is built (and the output directory created), and the response
\* is produced only after the invocation has ended.
C10_ExactlyOneInvocation ==
    (Ended /\ call.tool \in Tools) =>
        /\ RunCount = 1
        /\ pc = "returned" =>
              trace \in { <<"build", "run", "respond">>,
                          <<"build", "run", "exit", "respond">>,
                          <<"makedirs", "build", "run", "respond">>,
                          <<"makedirs", "build", "run", "exit", "respond">> }

\* C10 amended: every call that produces a response has invoked the
\* executable exactly once, after the command was built (and, for
\* post_crawl_export, after the output directory was created), and
\* produces the response only after the invocation has ended; no call
\* invokes it twice; a call of post_crawl_export whose os.makedirs fails
\* ends without invoking it at all.
C10_OneInvocationBeforeResponse ==
    /\ RunCount <= 1
    /\ (ToolReturned /\ call.tool = "domain_crawl") =>
          trace \in { <<"build", "run", "respond">>,
                      <<"build", "run", "exit", "respond">> }
    /\ (ToolReturned /\ call.tool = "post_crawl_export") =>
          trace \in { <<"makedirs", "build", "run", "respond">>,
                      <<"makedirs", "build", "run", "exit", "respond">> }
    /\ ToolReturned => (proc.state = "exited" <=> ContainsAtom(trace, "exit"))
    /\ (pc = "running") => (RunCount = 1 /\ argv = command /\ command # <<>>)
    /\ (pc = "raised" /\ fault = "makedirs") => RunCount = 0
    /\ (pc = "raised" /\ fault = "subprocess.run") => RunCount = 1

C10_Witness ==
    /\ ToolReturned
    /\ call.tool = "post_crawl_export"
    /\ proc.state = "exited"
    /\ trace = <<"makedirs", "build", "run", "exit", "respond">>

=============================================================================
